---- MODULE Spec2Model ----
(***************************************************************************)
(* Model of pip-wrapper's environment monitor (src/pip_wrapper/cli.py):    *)
(* the watchdog observer thread and the periodic daemon thread both call   *)
(* reconcile_installed_packages(), which rewrites pyproject.toml from the  *)
(* output of `pip freeze`.                                                 *)
(*                                                                         *)
(* A file is a sequence of lines, a line being a table header or a         *)
(* key = value pair; the length of a file is counted in lines.  A python   *)
(* dict is a sequence of entries in insertion order.                       *)
(*                                                                         *)
(* Library behaviour the model relies on: toml.load reads an empty file as *)
(* {} and rejects a table or key given twice; toml.dumps writes tables     *)
(* level by level; open(path, "w") truncates at once and the text reaches  *)
(* the file at the close; an exception that leaves on_any_event ends the   *)
(* watchdog observer thread, one that leaves periodic_reconcile ends the   *)
(* daemon thread.  When main() returns the process ends and the daemon     *)
(* thread stops wherever it is.                                            *)
(***************************************************************************)
EXTENDS Integers, Sequences, FiniteSets, TLC

VARIABLES
    file,       \* pyproject.toml on disk: [exists, text]
    installed,  \* the environment's packages: name -> version ("" = not installed)
    sup,        \* monitor_virtualenv(): Idle, Running, Stopping, Stopped, Exit1
    inVenv,     \* sys.base_prefix # sys.prefix
    realPrefix, \* hasattr(sys, "real_prefix"): an interpreter of a legacy virtualenv
    pending,    \* the observer's event queue: for each event, the change that caused it
    pc,         \* per thread: position inside reconcile_installed_packages()
    cur,        \* per thread: current_packages
    data,       \* per thread: project_data
    pre,        \* the call begun last, until it returns: [by, file as it was then]
    fail,       \* per thread: what went wrong in the call ("none" if nothing)
    sawWhole,   \* per thread: the text toml.load read was a whole document
    whole,      \* the file holds exactly one document, as written or as found
    latest,     \* the snapshot of the most recent probe
    prev,       \* the last call that returned: [valid, snap]
    envChanges, \* installs/uninstalls performed so far
    faults,     \* failures of the package manager so far
    burst,      \* the burst of events being handled: [id, calls made for it]
    cli         \* a function or command run on its own: its input and what it did so far

vars == <<file, installed, sup, inVenv, realPrefix, pending, pc, cur, data, pre, fail,
          sawWhole, whole, latest, prev, envChanges,
          faults, burst, cli>>

\* ---------------------------------------------------------------- bounds
MaxEnvChanges == 1
MaxFaults == 1
MaxBurst == 2
MaxLines == 3
MaxRuns == 2
MaxArgs == 2

\* ------------------------------------------------------------ vocabulary
NameOrder == <<"a", "b">>
Names == {NameOrder[i] : i \in 1..Len(NameOrder)}
Versions == {"1", "2"}
Threads == {"watcher", "timer"}

DEPENDENCIES == "tool.custom.dependencies"
BUILD_SYSTEM == "build-system"

\* nesting depth of a table: tool -> custom -> dependencies is 3 deep
Depth(name) == IF name = DEPENDENCIES THEN 3 ELSE 1

\* ------------------------------------------------- python dict (ordered)
Entry(k, v) == [k |-> k, v |-> v]
Has(d, k) == \E i \in 1..Len(d) : d[i].k = k
Get(d, k) == LET i == CHOOSE j \in 1..Len(d) : d[j].k = k IN d[i].v
\* d[k] = v: in place when the key exists, else appended
Put(d, k, v) ==
    IF Has(d, k)
    THEN [i \in 1..Len(d) |-> IF d[i].k = k THEN Entry(k, v) ELSE d[i]]
    ELSE Append(d, Entry(k, v))
\* d.pop(k)
Pop(d, k) == SelectSeq(d, LAMBDA e : e.k # k)
AsSet(d) == {d[i] : i \in 1..Len(d)}
Keys(d) == {d[i].k : i \in 1..Len(d)}

\* ------------------------------------------------------------- toml text
Hdr(name) == [t |-> "hdr", k |-> name, v |-> ""]
KV(k, v) == [t |-> "kv", k |-> k, v |-> v]

Parsed(doc) == [ok |-> TRUE, doc |-> doc]
TomlDecodeError == [ok |-> FALSE, doc |-> <<>>]

\* toml.load: tables in file order; a table or a key given twice is an
\* error.  Texts start with a header or are empty (an empty file is {}).
RECURSIVE LoadFrom(_, _, _)
LoadFrom(text, i, doc) ==
    IF i > Len(text) THEN Parsed(doc)
    ELSE LET ln == text[i] IN
         IF ln.t = "hdr"
         THEN IF Has(doc, ln.k) THEN TomlDecodeError
              ELSE LoadFrom(text, i + 1, Append(doc, Entry(ln.k, <<>>)))
         ELSE IF Len(doc) = 0 THEN TomlDecodeError
              ELSE LET body == doc[Len(doc)].v IN
                   IF Has(body, ln.k) THEN TomlDecodeError
                   ELSE LoadFrom(text, i + 1,
                            [doc EXCEPT ![Len(doc)].v = Append(body, Entry(ln.k, ln.v))])

Reverse(d) == [i \in 1..Len(d) |-> d[Len(d) + 1 - i]]

\* a parser that builds each table back to front
Loads_KeysReversed(text) ==
    LET r == LoadFrom(text, 1, <<>>) IN
    [r EXCEPT !.doc = [i \in 1..Len(r.doc) |-> Entry(r.doc[i].k, Reverse(r.doc[i].v))]]

Loads(text) == LoadFrom(text, 1, <<>>)

RECURSIVE DumpBody(_, _)
DumpBody(body, i) ==
    IF i > Len(body) THEN <<>>
    ELSE <<KV(body[i].k, body[i].v)>> \o DumpBody(body, i + 1)

RECURSIVE DumpLevel(_, _, _)
DumpLevel(doc, depth, i) ==
    IF i > Len(doc) THEN <<>>
    ELSE (IF Depth(doc[i].k) = depth
          THEN <<Hdr(doc[i].k)>> \o DumpBody(doc[i].v, 1)
          ELSE <<>>) \o DumpLevel(doc, depth, i + 1)

\* toml.dumps: tables are written level by level, the shallow ones first,
\* each level in dict order; a table without keys still gets its header.
Dumps(doc) == DumpLevel(doc, 1, 1) \o DumpLevel(doc, 2, 1) \o DumpLevel(doc, 3, 1)

\* f.write(text) at offset 0 of a file holding old: what lies beyond the
\* written part stays
WriteAt0(old, text) ==
    IF Len(old) > Len(text) THEN text \o SubSeq(old, Len(text) + 1, Len(old)) ELSE text

\* dict.setdefault(k, {}) on the flattened tool -> custom -> dependencies path
SetDefault(doc, name) == IF Has(doc, name) THEN doc ELSE Append(doc, Entry(name, <<>>))

\* ------------------------------------------------------------ pip freeze
\* A line of stdout is the sequence of its parts around "==".
NoSeparator == <<"-e git+https://example/x#egg=x">>
BadLine == <<"a", "1", "1">>

RECURSIVE FreezeFrom(_, _)
FreezeFrom(inst, i) ==
    IF i > Len(NameOrder) THEN <<>>
    ELSE (IF inst[NameOrder[i]] # "" THEN <<<<NameOrder[i], inst[NameOrder[i]]>>>> ELSE <<>>)
         \o FreezeFrom(inst, i + 1)

\* the listing of the environment: an editable install's line, then name==version
Freeze(inst) == <<NoSeparator>> \o FreezeFrom(inst, 1)

PipModes == {"ok", "exit1", "oserror", "badline"}

\* result.stdout of subprocess.run; a failed pip prints nothing on stdout
Stdout(inst, mode) ==
    CASE mode = "ok" -> Freeze(inst)
      [] mode = "exit1" -> <<>>
      [] mode = "badline" -> Freeze(inst) \o <<BadLine>>
      [] OTHER -> <<>>

\* the loop of get_installed_packages: [ok, pkgs]; ok = FALSE is the
\* ValueError of `name, version = line.split("==")`
RECURSIVE ParseFreeze(_, _, _)
ParseFreeze(lines, i, packages) ==
    IF i > Len(lines) THEN [ok |-> TRUE, pkgs |-> packages]
    ELSE IF Len(lines[i]) >= 2
         THEN IF Len(lines[i]) # 2 THEN [ok |-> FALSE, pkgs |-> <<>>]
              ELSE ParseFreeze(lines, i + 1, Put(packages, lines[i][1], lines[i][2]))
         ELSE ParseFreeze(lines, i + 1, packages)

\* get_installed_packages(); subprocess.run itself raises in mode oserror
get_installed_packages(inst, mode) ==
    IF mode = "oserror" THEN [ok |-> FALSE, pkgs |-> <<>>]
    ELSE ParseFreeze(Stdout(inst, mode), 1, <<>>)

\* ------------------------------------------------------------- reconcile
\* for package, version in current_packages.items(): add or update
RECURSIVE AddOrUpdate(_, _, _)
AddOrUpdate(deps, current, i) ==
    IF i > Len(current) THEN deps
    ELSE LET e == current[i] IN
         AddOrUpdate(IF ~Has(deps, e.k) \/ Get(deps, e.k) # e.v
                     THEN Put(deps, e.k, e.v) ELSE deps,
                     current, i + 1)

\* to_remove = [pkg for pkg in dependencies if pkg not in current_packages]
ToRemove(deps, current) == SelectSeq(deps, LAMBDA e : ~Has(current, e.k))

RECURSIVE RemoveAll(_, _, _)
RemoveAll(deps, drop, i) ==
    IF i > Len(drop) THEN deps ELSE RemoveAll(Pop(deps, drop[i].k), drop, i + 1)

\* the removal loop left out
RemoveUninstalled_Skip(deps, current) == deps

RemoveUninstalled(deps, current) == RemoveAll(deps, ToRemove(deps, current), 1)

\* a document rebuilt from the dependency table alone
Mutate_OnlyDependencies(doc, current) == <<Entry(DEPENDENCIES, current)>>

\* lines 133-145 of reconcile_installed_packages on the loaded document
Mutate(doc, current) ==
    LET d0 == SetDefault(doc, DEPENDENCIES)
        i == CHOOSE j \in 1..Len(d0) : d0[j].k = DEPENDENCIES
        added == AddOrUpdate(d0[i].v, current, 1)
    IN [d0 EXCEPT ![i].v = RemoveUninstalled(added, current)]

\* what a reader of the file finds as dependencies and as build metadata
Missing == <<Entry("?", "?")>>
SectionOf(f, name) ==
    IF ~f.exists \/ ~Loads(f.text).ok \/ ~Has(Loads(f.text).doc, name) THEN Missing
    ELSE Get(Loads(f.text).doc, name)
DepsOf(f) == SectionOf(f, DEPENDENCIES)
BuildOf(f) == SectionOf(f, BUILD_SYSTEM)
InstalledSet == {Entry(n, installed[n]) : n \in {m \in Names : installed[m] # ""}}

\* ------------------------------------------------------------ start state
Absent == [exists |-> FALSE, text |-> <<>>]
OnDisk(text) == [exists |-> TRUE, text |-> text]

\* project_data of initialize_pyproject
DefaultDoc ==
    <<Entry(DEPENDENCIES, <<>>),
      Entry(BUILD_SYSTEM, <<Entry("requires", "setuptools,wheel"),
                            Entry("build-backend", "setuptools.build_meta")>>)>>

\* manifests found at start: none; one written by hand (its own build
\* block, tool table first); one written by this program; one without a
\* build-system table; one that is not valid TOML (a key given twice)
HandWritten ==
    <<Hdr(DEPENDENCIES), KV("a", "1"),
      Hdr(BUILD_SYSTEM), KV("requires", "poetry-core")>>
ProgramWritten ==
    Dumps(<<Entry(DEPENDENCIES, <<Entry("b", "2"), Entry("a", "1")>>), DefaultDoc[2]>>)
NoBuildSystem == <<Hdr(DEPENDENCIES), KV("b", "1")>>
Malformed == <<Hdr(DEPENDENCIES), KV("a", "1"), KV("a", "2")>>

InitFiles ==
    {Absent, OnDisk(HandWritten), OnDisk(ProgramWritten), OnDisk(NoBuildSystem),
     OnDisk(Malformed)}

InitInstalled ==
    {[n \in Names |-> ""],
     [n \in Names |-> IF n = "a" THEN "1" ELSE ""],
     [n \in Names |-> IF n = "a" THEN "2" ELSE "1"]}

NoCall == [t \in Threads |-> <<>>]

\* the monitor before it is started: the manifest as one of files, the
\* environment as one of envs, a legacy interpreter if legacy allows it
InitWith(files, envs, legacy) ==
    /\ file \in files
    /\ installed \in envs
    /\ inVenv \in BOOLEAN
    /\ realPrefix \in legacy
    /\ sup = "Idle"
    /\ pending = <<>>
    /\ pc = [t \in Threads |-> "unstarted"]
    /\ cur = NoCall
    /\ data = NoCall
    /\ pre = [by |-> "none", file |-> Absent]
    /\ fail = [t \in Threads |-> "none"]
    /\ sawWhole = [t \in Threads |-> TRUE]
    /\ whole = TRUE
    /\ latest = <<>>
    /\ prev = [valid |-> FALSE, snap |-> <<>>]
    /\ envChanges = 0
    /\ faults = 0
    /\ burst = [id |-> 0, calls |-> 0]

\* an interpreter of Python 3's venv or of virtualenv 20 and later
NoCommand == [op |-> "none"]
Init == InitWith(InitFiles, InitInstalled, {FALSE}) /\ cli = NoCommand

\* --------------------------------------------------------- the supervisor
is_virtual_env_PrefixOnly == inVenv

\* hasattr(sys, "base_prefix") holds on every Python 3 interpreter
is_virtual_env == realPrefix \/ inVenv

\* monitor_virtualenv() up to threading.Thread(...).start()
MonitorStart ==
    /\ sup = "Idle"
    /\ IF ~is_virtual_env
       THEN sup' = "Exit1" /\ pc' = pc
       ELSE sup' = "Running" /\ pc' = [t \in Threads |-> "idle"]
    /\ UNCHANGED <<file, installed, inVenv, realPrefix, cli, pending, cur, data, pre, fail, sawWhole,
                   whole, latest, prev, envChanges, faults, burst>>

\* KeyboardInterrupt in observer.join(): observer.stop()
Interrupt ==
    /\ sup = "Running"
    /\ sup' = "Stopping"
    /\ UNCHANGED <<file, installed, inVenv, realPrefix, cli, pending, pc, cur, data, pre, fail, sawWhole,
                   whole, latest, prev, envChanges, faults, burst>>

\* the last observer.join() returns once the observer thread has ended its
\* current dispatch; monitor_virtualenv() and main() return, the process ends
JoinAfterStop ==
    /\ sup = "Stopping"
    /\ pc["watcher"] \in {"idle", "dead"}
    /\ sup' = "Stopped"
    /\ UNCHANGED <<file, installed, inVenv, realPrefix, cli, pending, pc, cur, data, pre, fail, sawWhole,
                   whole, latest, prev, envChanges, faults, burst>>

\* observer.join() in the try block returns without any interrupt when the
\* observer thread has ended; the second join returns at once
JoinObserverEnded ==
    /\ sup = "Running"
    /\ pc["watcher"] = "dead"
    /\ sup' = "Stopped"
    /\ UNCHANGED <<file, installed, inVenv, realPrefix, cli, pending, pc, cur, data, pre, fail, sawWhole,
                   whole, latest, prev, envChanges, faults, burst>>

\* -------------------------------------------------------- the environment
\* while the monitor's process lives, a package is installed, upgraded or
\* removed; the observer, unless stopped, is handed a burst of k filesystem
\* events for it (none: the change is missed)
EnvChange(n, v, k) ==
    /\ sup \in {"Running", "Stopping"}
    /\ envChanges < MaxEnvChanges
    /\ installed[n] # v
    /\ Len(pending) + k <= MaxBurst
    /\ k > 0 => sup = "Running"
    /\ installed' = [installed EXCEPT ![n] = v]
    /\ envChanges' = envChanges + 1
    /\ pending' = pending \o [i \in 1..k |-> envChanges + 1]
    /\ UNCHANGED <<file, sup, inVenv, realPrefix, cli, pc, cur, data, pre, fail, sawWhole, whole,
                   latest, prev, faults, burst>>

\* ------------------------------------------ reconcile_installed_packages
Running(t) == sup \in {"Running", "Stopping"}

BeginCall_AlwaysCreate(t) ==
    /\ pc' = [pc EXCEPT ![t] = "create_open"]
    /\ pre' = [by |-> t, file |-> file]
    /\ fail' = [fail EXCEPT ![t] = "none"]

\* the call, up to os.path.exists(PYPROJECT_FILE) in initialize_pyproject
BeginCall(t) ==
    /\ pc' = [pc EXCEPT ![t] = IF file.exists THEN "probe" ELSE "create_open"]
    /\ pre' = [by |-> t, file |-> file]
    /\ fail' = [fail EXCEPT ![t] = "none"]

\* the observer thread takes one event off its queue: on_any_event(event)
on_any_event ==
    /\ sup = "Running"
    /\ pc["watcher"] = "idle"
    /\ pending # <<>>
    /\ pending' = Tail(pending)
    /\ burst' = IF burst.id = Head(pending)
                THEN [burst EXCEPT !.calls = @ + 1]
                ELSE [id |-> Head(pending), calls |-> 1]
    /\ BeginCall("watcher")
    /\ UNCHANGED <<file, installed, sup, inVenv, realPrefix, cli, cur, data, sawWhole, whole, latest,
                   prev, envChanges, faults>>

\* periodic_reconcile: time.sleep(10) is over
periodic_reconcile ==
    /\ Running("timer")
    /\ pc["timer"] = "idle"
    /\ BeginCall("timer")
    /\ UNCHANGED <<file, installed, sup, inVenv, realPrefix, cli, pending, cur, data, sawWhole, whole,
                   latest, prev, envChanges, faults, burst>>

\* initialize_pyproject: open(PYPROJECT_FILE, "w") creates or truncates
CreateOpen(t) ==
    /\ Running(t)
    /\ pc[t] = "create_open"
    /\ file' = OnDisk(<<>>)
    /\ whole' = FALSE
    /\ pc' = [pc EXCEPT ![t] = "create_dump"]
    /\ UNCHANGED <<installed, sup, inVenv, realPrefix, cli, pending, cur, data, pre, fail, sawWhole,
                   latest, prev, envChanges, faults, burst>>

\* initialize_pyproject: toml.dump(project_data, f) and the close
CreateDump(t) ==
    /\ Running(t)
    /\ pc[t] = "create_dump"
    /\ file' = OnDisk(WriteAt0(file.text, Dumps(DefaultDoc)))
    /\ whole' = (WriteAt0(file.text, Dumps(DefaultDoc)) = Dumps(DefaultDoc))
    /\ pc' = [pc EXCEPT ![t] = "probe"]
    /\ UNCHANGED <<installed, sup, inVenv, realPrefix, cli, pending, cur, data, pre, fail, sawWhole,
                   latest, prev, envChanges, faults, burst>>

\* current_packages = get_installed_packages(); an exception ends the thread
Probe(t, mode) ==
    /\ Running(t)
    /\ pc[t] = "probe"
    /\ mode # "ok" => faults < MaxFaults
    /\ faults' = IF mode # "ok" THEN faults + 1 ELSE faults
    /\ LET r == get_installed_packages(installed, mode) IN
       /\ cur' = [cur EXCEPT ![t] = r.pkgs]
       /\ latest' = IF r.ok THEN r.pkgs ELSE latest
       /\ pc' = [pc EXCEPT ![t] = IF r.ok THEN "load" ELSE "dead"]
       /\ fail' = [fail EXCEPT ![t] = IF mode # "ok" THEN "probe" ELSE "none"]
    /\ UNCHANGED <<file, installed, sup, inVenv, realPrefix, cli, pending, data, pre, sawWhole, whole,
                   prev, envChanges, burst>>

\* open(PYPROJECT_FILE, "r"), toml.load(f) and the in-memory diff
Load(t) ==
    /\ Running(t)
    /\ pc[t] = "load"
    /\ LET r == Loads(file.text) IN
       IF file.exists /\ r.ok
       THEN /\ data' = [data EXCEPT ![t] = Mutate(r.doc, cur[t])]
            /\ sawWhole' = [sawWhole EXCEPT ![t] = whole]
            /\ pc' = [pc EXCEPT ![t] = "save_open"]
            /\ fail' = fail
       ELSE /\ pc' = [pc EXCEPT ![t] = "dead"]
            /\ fail' = [fail EXCEPT ![t] = "load"]
            /\ UNCHANGED <<data, sawWhole>>
    /\ UNCHANGED <<file, installed, sup, inVenv, realPrefix, cli, pending, cur, pre, whole, latest,
                   prev, envChanges, faults, burst>>

\* open(PYPROJECT_FILE, "w") truncates the file
SaveOpen(t) ==
    /\ Running(t)
    /\ pc[t] = "save_open"
    /\ file' = OnDisk(<<>>)
    /\ whole' = FALSE
    /\ pc' = [pc EXCEPT ![t] = "save_dump"]
    /\ UNCHANGED <<installed, sup, inVenv, realPrefix, cli, pending, cur, data, pre, fail, sawWhole,
                   latest, prev, envChanges, faults, burst>>

\* toml.dump(project_data, f) and the close
SaveDump(t) ==
    /\ Running(t)
    /\ pc[t] = "save_dump"
    /\ file' = OnDisk(WriteAt0(file.text, Dumps(data[t])))
    /\ whole' = (WriteAt0(file.text, Dumps(data[t])) = Dumps(data[t]))
    /\ pc' = [pc EXCEPT ![t] = "ret"]
    /\ UNCHANGED <<installed, sup, inVenv, realPrefix, cli, pending, cur, data, pre, fail, sawWhole,
                   latest, prev, envChanges, faults, burst>>

\* the call returns to on_any_event or to the loop of periodic_reconcile
Return(t) ==
    /\ Running(t)
    /\ pc[t] = "ret"
    /\ pc' = [pc EXCEPT ![t] = "idle"]
    /\ prev' = [valid |-> TRUE, snap |-> cur[t]]
    /\ cur' = [cur EXCEPT ![t] = <<>>]
    /\ data' = [data EXCEPT ![t] = <<>>]
    /\ fail' = [fail EXCEPT ![t] = "none"]
    /\ sawWhole' = [sawWhole EXCEPT ![t] = TRUE]
    /\ pre' = [by |-> "none", file |-> Absent]
    /\ UNCHANGED <<file, installed, sup, inVenv, realPrefix, cli, pending, whole, latest,
                   envChanges, faults, burst>>

Step(t) ==
    \/ CreateOpen(t)
    \/ CreateDump(t)
    \/ \E mode \in PipModes : Probe(t, mode)
    \/ Load(t)
    \/ SaveOpen(t)
    \/ SaveDump(t)
    \/ Return(t)

Environment ==
    \E n \in Names, v \in Versions \cup {""}, k \in {0, MaxBurst} : EnvChange(n, v, k)

Supervisor == MonitorStart \/ Interrupt \/ JoinAfterStop \/ JoinObserverEnded

Next ==
    \/ Supervisor
    \/ Environment
    \/ on_any_event
    \/ periodic_reconcile
    \/ \E t \in Threads : Step(t)

Spec == Init /\ [][Next]_vars

\* One call at a time: a trigger fires only while no other call is under way.
Quiet == \A t \in Threads : pc[t] \in {"unstarted", "idle", "dead"}

NextAlone ==
    \/ Supervisor
    \/ Environment
    \/ Quiet /\ on_any_event
    \/ Quiet /\ periodic_reconcile
    \/ \E t \in Threads : Step(t)

SpecAlone == Init /\ [][NextAlone]_vars

\* Both threads are scheduled by the operating system: a thread that can
\* take its next step eventually takes it, and the sleep of the periodic
\* loop ends.  A monitor started on a fresh project in a virtual environment.
InitFair ==
    /\ Init
    /\ file = Absent
    /\ inVenv
    /\ installed["a"] = "1" /\ installed["b"] = ""

\* the start of the monitor under every interpreter, legacy virtualenv
\* included, one reconciliation at a time
StartFiles == {Absent, OnDisk(HandWritten)}
StartInstalled == {[n \in Names |-> IF n = "a" THEN "1" ELSE ""]}
InitStart == InitWith(StartFiles, StartInstalled, BOOLEAN) /\ cli = NoCommand
SpecStart == InitStart /\ [][NextAlone]_vars

FairSpec ==
    /\ InitFair
    /\ [][Next]_vars
    /\ WF_vars(MonitorStart)
    /\ WF_vars(periodic_reconcile)
    /\ WF_vars(on_any_event)
    /\ \A t \in Threads : WF_vars(Step(t))

\* ------------------------------------------------- the prober on its own
monitor == <<sup, inVenv, realPrefix, pending, pc, cur, data, pre, fail, sawWhole,
             whole, latest, prev, envChanges, faults, burst>>

\* every sequence of at most n elements of S
SeqsUpTo(S, n) == UNION {[1..k -> S] : k \in 0..n}

\* lines of a listing: name==version (one name twice), an editable install,
\* a line with two separators
ListingLines == {<<"a", "1">>, <<"a", "2">>, <<"b", "2">>, NoSeparator, BadLine}
Listings == SeqsUpTo(ListingLines, MaxLines)

InitParse ==
    /\ InitWith({Absent}, StartInstalled, {FALSE})
    /\ inVenv
    /\ \E lines \in Listings :
          cli = [op |-> "get_installed_packages", stdout |-> lines, done |-> FALSE,
                 ret |-> [ok |-> TRUE, pkgs |-> <<>>]]

\* the loop of get_installed_packages() over result.stdout.splitlines()
ParseListing ==
    /\ cli.op = "get_installed_packages"
    /\ ~cli.done
    /\ cli' = [cli EXCEPT !.done = TRUE, !.ret = ParseFreeze(cli.stdout, 1, <<>>)]
    /\ UNCHANGED <<file, installed, monitor>>

SpecParse == InitParse /\ [][ParseListing]_vars

\* ------------------------------------------- update_pyproject on its own
\* initialize_pyproject() run alone, from its exists check to the end of its write
initialize_pyproject(f) == IF f.exists THEN f ELSE OnDisk(Dumps(DefaultDoc))

\* the document with its dependencies table replaced by deps
WithDeps(doc, deps) ==
    LET i == CHOOSE j \in 1..Len(doc) : doc[j].k = DEPENDENCIES
    IN [doc EXCEPT ![i].v = deps]

Raised(f) == [ok |-> FALSE, file |-> f]
Returned(f) == [ok |-> TRUE, file |-> f]

\* update_pyproject() of src/pip_wrapper/cli.py: always calls
\* initialize_pyproject(), compares before it assigns, always rewrites
update_pyproject(f, package, version) ==
    LET f1 == initialize_pyproject(f)
        r == Loads(f1.text)
        d0 == SetDefault(r.doc, DEPENDENCIES)
        deps == Get(d0, DEPENDENCIES)
    IN IF ~r.ok THEN Raised(f1)
       ELSE Returned(OnDisk(Dumps(WithDeps(d0,
                IF Has(deps, package)
                THEN IF Get(deps, package) = version THEN deps
                     ELSE Put(deps, package, version)
                ELSE Put(deps, package, version)))))

update_pyproject_env_OnlyThis(f, package, version) ==
    LET f1 == IF ~f.exists THEN initialize_pyproject(f) ELSE f
        r == Loads(f1.text)
        d0 == SetDefault(r.doc, DEPENDENCIES)
    IN IF ~r.ok THEN Raised(f1)
       ELSE Returned(OnDisk(Dumps(WithDeps(d0, <<Entry(package, version)>>))))

\* update_pyproject() of the installed copy under src/.env: calls
\* initialize_pyproject() when the file is absent, assigns, rewrites
update_pyproject_env(f, package, version) ==
    LET f1 == IF ~f.exists THEN initialize_pyproject(f) ELSE f
        r == Loads(f1.text)
        d0 == SetDefault(r.doc, DEPENDENCIES)
    IN IF ~r.ok THEN Raised(f1)
       ELSE Returned(OnDisk(Dumps(WithDeps(d0,
                Put(Get(d0, DEPENDENCIES), package, version)))))

Copies == {"src", "env"}

\* manifests update_pyproject may find: those of the monitor, an empty file,
\* one without a dependencies table
EmptyFile == <<>>
OnlyBuildSystem == <<Hdr(BUILD_SYSTEM), KV("requires", "flit")>>
UpdateFiles == InitFiles \cup {OnDisk(EmptyFile), OnDisk(OnlyBuildSystem)}

InitUpdate ==
    /\ InitWith(UpdateFiles, StartInstalled, {FALSE})
    /\ inVenv
    /\ \E copy \in Copies, package \in Names, version \in Versions :
          cli = [op |-> "update_pyproject", copy |-> copy, package |-> package,
                 version |-> version, runs |-> 0, ok |-> TRUE,
                 before |-> file, first |-> file]

\* one call update_pyproject(package, version) of the chosen copy
UpdatePyproject ==
    /\ cli.op = "update_pyproject"
    /\ cli.runs < MaxRuns
    /\ LET r == IF cli.copy = "src"
                THEN update_pyproject(file, cli.package, cli.version)
                ELSE update_pyproject_env(file, cli.package, cli.version)
       IN /\ file' = r.file
          /\ cli' = [cli EXCEPT !.runs = @ + 1, !.ok = r.ok,
                                !.first = IF cli.runs = 0 THEN r.file ELSE @]
    /\ UNCHANGED <<installed, monitor>>

SpecUpdate == InitUpdate /\ [][UpdatePyproject]_vars

\* ------------------------------------------------ the wrapper command
\* A requirement on the command line or in a request to pip is the sequence
\* of its parts around "==", like a line of the listing.
Option == <<"-U">>
Requirements == {<<"a">>, <<"a", "1">>, <<"b", "2">>, Option, BadLine}
CommandLines ==
    {[command |-> "install", packages |-> ps] : ps \in SeqsUpTo(Requirements, MaxArgs)}
    \cup {[command |-> c, packages |-> <<>>] : c \in {"", "install-all", "list"}}

\* what pip is asked to run, and a completed write of the manifest
Request(command, args) == [what |-> "pip", command |-> command, args |-> args]
Wrote == [what |-> "write", command |-> "update_pyproject", args |-> <<>>]

\* the version pip installs for a bare name that is not installed yet
Latest == "2"
Valid(req) ==
    \/ req = Option
    \/ Len(req) = 1 /\ req[1] \in Names
    \/ Len(req) = 2 /\ req[1] \in Names /\ req[2] \in Versions

Satisfy(inst, req) ==
    IF req = Option THEN inst
    ELSE IF Len(req) = 2 THEN [inst EXCEPT ![req[1]] = req[2]]
    ELSE IF inst[req[1]] # "" THEN inst ELSE [inst EXCEPT ![req[1]] = Latest]

RECURSIVE SatisfyAll(_, _, _)
SatisfyAll(inst, reqs, i) ==
    IF i > Len(reqs) THEN inst ELSE SatisfyAll(Satisfy(inst, reqs[i]), reqs, i + 1)

\* the environment after `pip install reqs`: all of them or, if pip fails
\* (works = FALSE, or a requirement it cannot satisfy), none
PipInstall(inst, reqs, works) ==
    IF works /\ \A i \in 1..Len(reqs) : Valid(reqs[i])
    THEN SatisfyAll(inst, reqs, 1) ELSE inst

\* get_installed_version(): the Version: line of `pip show`, "" for None
get_installed_version(inst, package) ==
    IF package \in Names THEN inst[package] ELSE ""

\* manifests the wrapper may find: also one with an entry without a version
EmptyVersion == <<Hdr(DEPENDENCIES), KV("a", "1"), KV("b", "")>>
WrapperFiles ==
    {Absent, OnDisk(HandWritten), OnDisk(EmptyVersion), OnDisk(OnlyBuildSystem),
     OnDisk(Malformed)}

\* main() of the installed copy with its command line, or main() of
\* src/pip_wrapper/cli.py after the choice "2"
InitWrapper ==
    /\ InitWith(WrapperFiles, InitInstalled, {FALSE})
    /\ inVenv
    /\ \E copy \in Copies, line \in CommandLines :
          /\ copy = "src" => line.command = "install-all"
          /\ cli = [op |-> "main", copy |-> copy, command |-> line.command,
                    packages |-> line.packages, at |-> "start", i |-> 1,
                    log |-> <<>>, todo |-> <<>>, before |-> file]

\* main() up to the loop over the packages
Main(works) ==
    /\ cli.op = "main"
    /\ cli.at = "start"
    /\ IF cli.command = ""
       THEN cli' = [cli EXCEPT !.at = "exit1"] /\ installed' = installed
       ELSE IF cli.command = "install-all"
       THEN cli' = [cli EXCEPT !.at = "install_all"] /\ installed' = installed
       ELSE IF cli.command = "install" /\ Len(cli.packages) > 0
       THEN /\ installed' = PipInstall(installed, cli.packages, works)
            /\ cli' = [cli EXCEPT !.at = "loop",
                                  !.log = Append(@, Request("install", cli.packages))]
       ELSE /\ installed' = installed
            /\ cli' = [cli EXCEPT !.at = "done",
                                  !.log = Append(@, Request(cli.command, cli.packages))]
    /\ UNCHANGED <<file, monitor>>

\* one turn of `for package in packages`
RecordPackage ==
    /\ cli.op = "main"
    /\ cli.at = "loop"
    /\ LET package == cli.packages[cli.i]
           pinned == Len(package) >= 2
           pkg_name == package[1]
           pkg_version == IF pinned THEN package[2]
                          ELSE get_installed_version(installed, pkg_name)
           r == update_pyproject_env(file, pkg_name, pkg_version)
           next == IF cli.i = Len(cli.packages) THEN "done" ELSE "loop"
       IN IF pinned /\ Len(package) # 2
          THEN cli' = [cli EXCEPT !.at = "raised"] /\ file' = file
          ELSE IF pkg_version = ""
          THEN cli' = [cli EXCEPT !.at = next, !.i = @ + 1] /\ file' = file
          ELSE /\ file' = r.file
               /\ cli' = IF r.ok
                         THEN [cli EXCEPT !.at = next, !.i = @ + 1, !.log = Append(@, Wrote)]
                         ELSE [cli EXCEPT !.at = "raised"]
    /\ UNCHANGED <<installed, monitor>>

\* ------------------------------------------------------------ install-all
PkgStr_AlwaysPinned(e) == <<e.k, e.v>>

\* pkg_str = f"{package}=={version}" if version else package
PkgStr(e) == IF e.v # "" THEN <<e.k, e.v>> ELSE <<e.k>>

\* project_data.get("tool", {}).get("custom", {}).get("dependencies", {})
GetDependencies(doc) == IF Has(doc, DEPENDENCIES) THEN Get(doc, DEPENDENCIES) ELSE <<>>

\* install_dependencies_from_pyproject() up to its loop; without a manifest
\* the copy in src/pip_wrapper returns, the installed copy calls sys.exit(1)
InstallAllBegin ==
    /\ cli.op = "main"
    /\ cli.at = "install_all"
    /\ LET r == Loads(file.text)
           dependencies == GetDependencies(r.doc)
       IN cli' = IF ~file.exists
                 THEN [cli EXCEPT !.at = IF cli.copy = "src" THEN "done" ELSE "exit1"]
                 ELSE IF ~r.ok THEN [cli EXCEPT !.at = "raised"]
                 ELSE IF dependencies = <<>> THEN [cli EXCEPT !.at = "done"]
                 ELSE [cli EXCEPT !.at = "installing", !.todo = dependencies]
    /\ UNCHANGED <<file, installed, monitor>>

\* one turn of `for package, version in dependencies.items()`
InstallNext(works) ==
    /\ cli.op = "main"
    /\ cli.at = "installing"
    /\ LET pkg_str == PkgStr(Head(cli.todo))
       IN /\ installed' = PipInstall(installed, <<pkg_str>>, works)
          /\ cli' = [cli EXCEPT !.log = Append(@, Request("install", <<pkg_str>>)),
                                !.todo = Tail(@),
                                !.at = IF Len(cli.todo) = 1 THEN "done" ELSE @]
    /\ UNCHANGED <<file, monitor>>

NextWrapper ==
    \/ \E works \in BOOLEAN : Main(works)
    \/ RecordPackage
    \/ InstallAllBegin
    \/ \E works \in BOOLEAN : InstallNext(works)

SpecWrapper == InitWrapper /\ [][NextWrapper]_vars

\* ------------------------------------------------------------ properties
AtReturn(t) == pc[t] = "ret" /\ pre.by = t
InSequence(t) == pc[t] \in {"save_open", "save_dump"}
HasBuild(f) == f.exists /\ Loads(f.text).ok /\ Has(Loads(f.text).doc, BUILD_SYSTEM)

\* C1: a call that ran alone and returned leaves the manifest's dependencies
\* equal, as a set of name -> version pairs, to the installed set its probe
\* returned; with a working package manager and an unchanged environment
\* that is the installed set itself.
C1_Convergence ==
    \A t \in Threads :
        AtReturn(t) =>
            /\ AsSet(DepsOf(file)) = AsSet(cur[t])
            /\ (fail[t] = "none" /\ envChanges = 0) => AsSet(DepsOf(file)) = InstalledSet

\* a returned call that removed one name and added or updated another
C1_Witness ==
    \E t \in Threads :
        /\ AtReturn(t)
        /\ pre.file.exists
        /\ AsSet(cur[t]) = InstalledSet
        /\ Keys(DepsOf(pre.file)) \ Keys(cur[t]) # {}
        /\ AsSet(cur[t]) \ AsSet(DepsOf(pre.file)) # {}
        /\ AsSet(DepsOf(file)) = InstalledSet

\* C2: the watcher's call and the timer's call are never both between
\* their load and the end of their save.
C2_MutualExclusion == ~(InSequence("watcher") /\ InSequence("timer"))

\* C3: once both threads' calls have returned, the manifest's dependencies
\* are the snapshot of the most recent probe, never an older one (stated
\* for runs in which the package manager never failed).
C3_NoLostUpdate ==
    ((\A t \in Threads : pc[t] = "idle") /\ prev.valid /\ faults = 0)
        => AsSet(DepsOf(file)) = AsSet(latest)

\* C4: the events that one change of the environment delivers together
\* cause one call of reconcile_installed_packages, not one each.
C4_Debounce == burst.calls <= 1

\* C5: a call whose probe or load failed leaves the manifest as it was when
\* the call began.
C5_AbortWithoutWrite ==
    \A t \in Threads : (pre.by = t /\ fail[t] # "none") => file = pre.file

\* C6: no error in a call ends a trigger thread: both stay alive.
C6_ErrorContainment == \A t \in Threads : pc[t] # "dead"

\* C7: every load reads a whole document, the one before a save or the one
\* after it.
C7_AtomicSave == \A t \in Threads : sawWhole[t]

\* C8: the build-system table a manifest has before a call that ran alone
\* is there, unchanged, when the call returns.
C8_Preservation ==
    \A t \in Threads :
        (AtReturn(t) /\ HasBuild(pre.file)) => BuildOf(file) = BuildOf(pre.file)

\* a returned call that kept a hand-written build-system table while it
\* changed the dependencies
C8_Witness ==
    \E t \in Threads :
        /\ AtReturn(t)
        /\ HasBuild(pre.file)
        /\ BuildOf(pre.file) # DefaultDoc[2].v
        /\ BuildOf(file) = BuildOf(pre.file)
        /\ DepsOf(file) # DepsOf(pre.file)

\* C9: a call that ran alone right after another that returned, with the
\* same probe result, leaves the file exactly as it found it.
C9_Idempotence ==
    \A t \in Threads :
        (AtReturn(t) /\ prev.valid /\ prev.snap = cur[t]) => file = pre.file

\* the second of two calls over two installed packages
C9_Witness ==
    \E t \in Threads :
        /\ AtReturn(t)
        /\ prev.valid
        /\ prev.snap = cur[t]
        /\ Len(cur[t]) = 2
        /\ file = pre.file

\* C10: from some point on, whenever the monitor is running and no call is
\* under way, the manifest's dependencies equal the installed set.
C10_EventualConvergence ==
    <>[]((sup = "Running" /\ Quiet) => AsSet(DepsOf(file)) = InstalledSet)


\* ------------------------------------------------------------ the shutdown
\* a trigger starts a reconciliation in this step
Starts(t) == pc[t] = "idle" /\ pc'[t] # "idle"

\* a reconciliation is between the start of its load and the end of its save
InFlight(t) == pc[t] \in {"load", "save_open", "save_dump"}

\* C11: the supervisor moves only along Idle -> Running -> Stopping ->
\* Stopped (or leaves Idle by the failed precondition): every step into
\* Stopped is taken from Stopping, and in Stopping
\* both the change notifier and the periodic trigger are stopped, so neither
\* of them starts a reconciliation there.
C11_Lifecycle ==
    [][/\ sup = "Idle" => sup' \in {"Idle", "Running", "Exit1"}
       /\ sup = "Running" => sup' \in {"Running", "Stopping"}
       /\ sup = "Stopping" => sup' \in {"Stopping", "Stopped"}
       /\ sup = "Stopped" => sup' = "Stopped"
       /\ sup = "Stopping" => \A t \in Threads : ~Starts(t)]_vars

\* C12: the shutdown waits for the work in flight: once monitor_virtualenv()
\* has returned (Stopped), no reconciliation of either trigger thread is
\* between its load and the end of its save.
C12_ShutdownWaits == sup = "Stopped" => \A t \in Threads : ~InFlight(t)

\* C13: after the stop signal the change notifier accepts no further
\* filesystem event and the periodic trigger has terminated: from the signal
\* on, no event is queued and neither trigger starts a reconciliation.
C13_ShutdownStopsTriggers ==
    [][(sup = "Stopping" \/ sup = "Stopped") =>
          (/\ Len(pending') <= Len(pending)
           /\ \A t \in Threads : pc[t] = "idle" => pc'[t] \in {"idle", "dead"})]_vars


\* ------------------------------------------------------- the precondition
\* nothing of the monitor has run: no thread started, no event taken
NothingStarted == pending = <<>> /\ \A t \in Threads : pc[t] = "unstarted"

\* C14 (as stated): when sys.base_prefix equals sys.prefix, the monitor exits
\* with a non-zero status before any work and the manifest stays as it is;
\* when they differ it does not exit.
C14_PreconditionFatal ==
    /\ [](~inVenv => sup \in {"Idle", "Exit1"} /\ NothingStarted)
    /\ [](inVenv => sup # "Exit1")
    /\ [][~inVenv => file' = file]_vars

\* C14 (as the code has it): the monitor exits with a non-zero status before
\* any work exactly when sys.base_prefix equals sys.prefix and sys has no
\* real_prefix attribute; the manifest then stays as it is.  With a
\* real_prefix attribute or differing prefixes it never exits that way and
\* its only step out of Idle is to Running.
C14_PreconditionFatalUnlessLegacy ==
    /\ [](~inVenv /\ ~realPrefix => sup \in {"Idle", "Exit1"} /\ NothingStarted)
    /\ [](inVenv \/ realPrefix => sup # "Exit1")
    /\ [][~inVenv /\ ~realPrefix => file' = file]_vars
    /\ [][(inVenv \/ realPrefix) /\ sup = "Idle" => sup' \in {"Idle", "Running"}]_vars

C14_Witness == sup = "Exit1" /\ ~inVenv /\ ~realPrefix /\ file \in StartFiles


\* ------------------------------------------------------ the manifest store
\* initialize_pyproject() of thread t has just returned
Initialized(t) == pc[t] = "probe" /\ pre.by = t

\* C15: when initialize_pyproject() finds no manifest it creates one with an
\* empty dependency mapping and the fixed build-metadata block and nothing
\* else; when it finds a manifest it leaves it as it is.
C15_LoadDefault ==
    \A t \in Threads : Initialized(t) =>
        IF pre.file.exists
        THEN file = pre.file
        ELSE /\ file.exists
             /\ Len(Loads(file.text).doc) = 2
             /\ DepsOf(file) = <<>>
             /\ AsSet(BuildOf(file)) = {Entry("requires", "setuptools,wheel"),
                                        Entry("build-backend", "setuptools.build_meta")}

C15_Witness ==
    \E t \in Threads : Initialized(t) /\ ~pre.file.exists /\ DepsOf(file) = <<>>


\* -------------------------------------------------------------- the prober
\* the last line of the listing that has the form name==version for name n
LastLineOf(lines, n) ==
    LET at == {i \in 1..Len(lines) : Len(lines[i]) = 2 /\ lines[i][1] = n}
    IN IF at = {} THEN 0 ELSE CHOOSE i \in at : \A j \in at : j <= i

\* C16: for every sequence of listing lines get_installed_packages() returns,
\* without failing, the mapping made of exactly the lines of the form
\* name==version; every other line is ignored, a line with more than one
\* separator included, and an empty listing yields the empty mapping.
C16_ProbeParsing ==
    (cli.op = "get_installed_packages" /\ cli.done) =>
        /\ cli.ret.ok
        /\ \A n \in Names :
             LET i == LastLineOf(cli.stdout, n)
             IN IF i = 0 THEN ~Has(cli.ret.pkgs, n)
                ELSE Has(cli.ret.pkgs, n) /\ Get(cli.ret.pkgs, n) = cli.stdout[i][2]
        /\ Len(cli.ret.pkgs) = Cardinality({n \in Names : LastLineOf(cli.stdout, n) # 0})


\* ------------------------------------------------------- the manual update
\* the table `name` of a manifest as update_pyproject finds it: the default
\* document's when there is no manifest
FoundIn(f, name) == SectionOf(initialize_pyproject(f), name)
DepsFound(f) == IF FoundIn(f, DEPENDENCIES) = Missing THEN <<>> ELSE FoundIn(f, DEPENDENCIES)

\* C17: update_pyproject(package, version) run alone leaves
\* dependencies[package] = version, every other dependency entry and the
\* build-system table as they were (those of the default manifest when there
\* was none), a second run changes nothing, and both copies of the function
\* give the same manifest for the same input.
C17_ManualUpdate ==
    (cli.op = "update_pyproject" /\ cli.runs >= 1) =>
        /\ cli.ok =>
             /\ Entry(cli.package, cli.version) \in AsSet(DepsOf(file))
             /\ \A e \in AsSet(DepsOf(file)) \cup AsSet(DepsFound(cli.before)) :
                  e.k # cli.package =>
                      e \in AsSet(DepsOf(file)) \cap AsSet(DepsFound(cli.before))
             /\ Len(DepsOf(file)) = Cardinality(Keys(DepsFound(cli.before)) \cup {cli.package})
             /\ BuildOf(file) = FoundIn(cli.before, BUILD_SYSTEM)
             /\ ~cli.before.exists => Keys(Loads(file.text).doc) = {DEPENDENCIES, BUILD_SYSTEM}
        /\ file = cli.first
        /\ update_pyproject(cli.before, cli.package, cli.version)
             = update_pyproject_env(cli.before, cli.package, cli.version)

C17_Witness ==
    /\ cli.op = "update_pyproject" /\ cli.runs = 2 /\ cli.ok
    /\ cli.before = OnDisk(HandWritten) /\ cli.package = "b"
    /\ Keys(DepsOf(file)) = {"a", "b"}


\* ------------------------------------------------------ the wrapper command
\* main() has ended: it returned, called sys.exit(1) or raised
Ended == cli.op = "main" /\ cli.at \in {"done", "exit1", "raised"}

\* a manifest that update_pyproject can load (none at all counts)
Loadable(f) == ~f.exists \/ Loads(f.text).ok

\* what one argument is to record: name and version, or nothing
ToRecord(inst, package) ==
    IF Len(package) = 2 THEN {Entry(package[1], package[2])}
    ELSE IF Len(package) = 1 /\ get_installed_version(inst, package[1]) # ""
    THEN {Entry(package[1], get_installed_version(inst, package[1]))}
    ELSE {}

\* the dependency entries S after the arguments from the i-th on are recorded
RECURSIVE Recorded(_, _, _, _)
Recorded(S, inst, packages, i) ==
    IF i > Len(packages) THEN S
    ELSE LET new == ToRecord(inst, packages[i])
         IN Recorded({e \in S : \A n \in new : n.k # e.k} \cup new, inst, packages, i + 1)

\* C18: for `install p1 ... pn` pip install is requested once, with all the
\* arguments, before any write of the manifest; when main() has ended the
\* dependencies are those found at the start with, for each argument in
\* order, name = ver for a pinned one, name = the version pip reports for an
\* unpinned one, and nothing for one whose version cannot be determined.  A
\* command other than install and install-all is handed to pip as it is and
\* the manifest stays as it was.
C18_WrapperInstall ==
    (cli.op = "main" /\ cli.copy = "env" /\ cli.at # "start") =>
        /\ (cli.command = "install" /\ cli.packages # <<>>) =>
             /\ cli.log[1] = Request("install", cli.packages)
             /\ \A j \in 2..Len(cli.log) : cli.log[j] = Wrote
             /\ (Ended /\ Loadable(cli.before)) =>
                    AsSet(DepsFound(file))
                      = Recorded(AsSet(DepsFound(cli.before)), installed, cli.packages, 1)
        /\ (cli.command \notin {"", "install-all"} /\ cli.at = "done" /\ cli.packages = <<>>) =>
             /\ file = cli.before
             /\ cli.log = <<Request(cli.command, <<>>)>>


\* -------------------------------------------------------------- install-all
\* the dependency entries of a manifest as install-all reads them
Listed(f) == IF f.exists /\ Loads(f.text).ok THEN GetDependencies(Loads(f.text).doc) ELSE <<>>

\* the request for entry e: name==version, the bare name without a version
RequestFor(e) ==
    Request("install", <<IF e.v = "" THEN <<e.k>> ELSE <<e.k, e.v>>>>)

\* C19: install_dependencies_from_pyproject() never creates or changes the
\* manifest; it asks pip for one install per dependency entry, in the
\* manifest's order, as name==version or as the bare name when the version
\* is empty, and for none when the manifest is absent or lists nothing.
C19_InstallAllReadOnly ==
    (cli.op = "main" /\ cli.command = "install-all") =>
        /\ file = cli.before
        /\ Len(cli.log) <= Len(Listed(file))
        /\ \A j \in 1..Len(cli.log) : cli.log[j] = RequestFor(Listed(file)[j])
        /\ Ended => Len(cli.log) = Len(Listed(file))

C19_Witness ==
    /\ Ended /\ cli.command = "install-all" /\ file = OnDisk(EmptyVersion)
    /\ cli.log = <<Request("install", <<<<"a", "1">>>>), Request("install", <<<<"b">>>>)>>

====
